---- MODULE Spec2Model ----
(***************************************************************************)
(* Model of src/app.py: the markup-to-PDF formatter (create_pdf and its    *)
(* helpers), the agent invocation wrapper (generate_report, _extract_text) *)
(* and the Streamlit script body (Generate click, report display, export). *)
(*                                                                         *)
(* A Python str is a sequence of one-character strings.  The character "U" *)
(* stands for any code point above 255 (outside Latin-1); "a" and "b" are  *)
(* ordinary Latin-1 letters.                                               *)
(***************************************************************************)
EXTENDS Integers, Sequences, FiniteSets, TLC

VARIABLES
    pc,            \* which specification is running and where it is
    report_in,     \* create_pdf: argument report_text
    title_in,      \* create_pdf: argument title
    pdf,           \* create_pdf: commands issued to the FPDF object, in order
    pdf_raised,    \* create_pdf: "none", or the exception it ended in
    agent_result,  \* generate_report: what agent.invoke returned
    gen,           \* generate_report: [raised, value]
    topic,         \* st.text_input value
    report_text,   \* st.session_state.report_text
    last_topic,    \* st.session_state.last_topic
    ui,            \* what the current script run has put on the page
    hist,          \* history of the current/last Generate click
    ntok           \* number of tokens the input text was built from

vars == <<pc, report_in, title_in, pdf, pdf_raised, agent_result, gen,
          topic, report_text, last_topic, ui, hist, ntok>>

(***************************************************************************)
(* Bounds                                                                  *)
(***************************************************************************)
MaxTokens == 5
MaxMsgs == 2

(***************************************************************************)
(* Python str helpers                                                      *)
(***************************************************************************)
NL == "\n"
None == <<>>
Whitespace == {" ", NL}
Stars == <<"*", "*">>

StartsWith(s, p) == Len(s) >= Len(p) /\ SubSeq(s, 1, Len(p)) = p

EndsWith(s, p) == Len(s) >= Len(p) /\ SubSeq(s, Len(s) - Len(p) + 1, Len(s)) = p

Drop(s, n) == SubSeq(s, n + 1, Len(s))

RECURSIVE lstrip(_, _)
lstrip(s, chars) ==
    IF s # <<>> /\ s[1] \in chars THEN lstrip(Tail(s), chars) ELSE s

RECURSIVE rstrip(_, _)
rstrip(s, chars) ==
    IF s # <<>> /\ s[Len(s)] \in chars THEN rstrip(SubSeq(s, 1, Len(s) - 1), chars) ELSE s

\* Mutant: the line is used as it came, untrimmed.
strip_forgotten(s) == s

strip(s) == rstrip(lstrip(s, Whitespace), Whitespace)

\* Index of the first line break of s, 0 when there is none.
FirstNL(s) ==
    LET I == {i \in 1..Len(s) : s[i] = NL}
    IN  IF I = {} THEN 0 ELSE CHOOSE i \in I : \A j \in I : i <= j

\* str.splitlines(): no final empty line after a trailing line break.
RECURSIVE splitlines(_)
splitlines(s) ==
    IF s = <<>> THEN <<>>
    ELSE LET k == FirstNL(s)
         IN  IF k = 0 THEN <<s>>
             ELSE <<SubSeq(s, 1, k - 1)>> \o splitlines(Drop(s, k))

\* str.encode("latin-1") succeeds exactly when every code point is <= 255.
Latin1Encodable(s) == \A i \in 1..Len(s) : s[i] # "U"

(***************************************************************************)
(* Regular expressions of the formatter                                    *)
(***************************************************************************)
NoMatch == [matched |-> FALSE, g1 |-> <<>>, g2 |-> <<>>, end |-> 0]

\* \*\*(.+?)\*\* tried at position i of s: the opening marker at i, i+1, the
\* shortest non-empty group, the closing marker right after it.
BoldAt(s, i) ==
    IF i + 1 <= Len(s) /\ s[i] = "*" /\ s[i + 1] = "*"
    THEN LET J == {j \in (i + 3)..(Len(s) - 1) : s[j] = "*" /\ s[j + 1] = "*"}
         IN  IF J = {} THEN NoMatch
             ELSE LET j == CHOOSE x \in J : \A y \in J : x <= y
                  IN  [matched |-> TRUE, g1 |-> SubSeq(s, i + 2, j - 1),
                       g2 |-> Drop(s, j + 1), end |-> j + 1]
    ELSE NoMatch

\* re.fullmatch(r"\*\*(.+)\*\*", s)
HeadingMatch(s) ==
    IF Len(s) >= 5 /\ StartsWith(s, Stars) /\ EndsWith(s, Stars)
    THEN [matched |-> TRUE, g1 |-> SubSeq(s, 3, Len(s) - 2), g2 |-> <<>>, end |-> Len(s)]
    ELSE NoMatch

\* re.match(r"\*\*(.+?)\*\*(.*)$", s)
LabelMatch(s) == BoldAt(s, 1)

\* bold_pattern.sub(lambda m: m.group(1), text), scanning from position i.
RECURSIVE StripFrom(_, _)
StripFrom(s, i) ==
    IF i > Len(s) THEN <<>>
    ELSE LET m == BoldAt(s, i)
         IN  IF m.matched THEN m.g1 \o StripFrom(s, m.end + 1)
             ELSE <<s[i]>> \o StripFrom(s, i + 1)

_strip_markdown(text) == StripFrom(text, 1)

(***************************************************************************)
(* Writers: each returns the command it issues to the FPDF object.  `text` *)
(* is the argument the writer received (the label for a labeled block),    *)
(* `cells` the strings it passes to pdf.multi_cell, in order.              *)
(***************************************************************************)
Cmd(kind, text, body, bullet, cells) ==
    [kind |-> kind, text |-> text, body |-> body, bullet |-> bullet, cells |-> cells]

_write_heading(text) == Cmd("Heading", text, None, FALSE, <<text>>)

_write_paragraph(text) == Cmd("Paragraph", text, None, FALSE, <<_strip_markdown(text)>>)

_write_bullet(text) ==
    Cmd("Bullet", text, None, TRUE, <<<<"-", " ">> \o _strip_markdown(text)>>)

_write_label_block(label, body, bullet) ==
    LET prefix == IF bullet THEN <<"-", " ">> ELSE <<>>
        indent == IF bullet THEN <<" ", " ", " ", " ">> ELSE <<>>
    IN  Cmd("LabeledBlock", label, body, bullet,
            <<prefix \o label>> \o
            (IF body # None THEN <<indent \o _strip_markdown(body)>> ELSE <<>>))

\* pdf.ln(3) of a blank line
Spacing == Cmd("Spacing", <<>>, None, FALSE, <<>>)

\* The title block written before the loop.
TitleCmd(title) == Cmd("Title", title, None, FALSE, <<title>>)

IsBulletLine(stripped) ==
    StartsWith(stripped, <<"-", " ">>) \/ StartsWith(stripped, <<"*", " ">>)

\* The label branch of the loop body.
LabelBranch(label_match, bullet) ==
    LET label == strip(label_match.g1)
        body == strip(lstrip(label_match.g2, {" ", ":"}))
        label_text == IF body # None THEN label \o <<":">> ELSE label
    IN  _write_label_block(label_text, body, bullet)

\* Mutant: the heading is taken whether or not a bullet marker was removed.
HeadingTakenForBullets(heading_match, bullet) == heading_match.matched

\* `if heading_match and not bullet`
HeadingTaken(heading_match, bullet) == heading_match.matched /\ ~bullet

\* Mutant: no `continue` after the heading, the line falls through to the
\* label check and is written a second time.
LineCommandsFallThrough(raw_line) ==
    LET stripped0 == strip(raw_line)
    IN  IF stripped0 = <<>> THEN <<Spacing>>
        ELSE LET bullet == IsBulletLine(stripped0)
                 stripped == IF bullet THEN strip(Drop(stripped0, 2)) ELSE stripped0
                 heading_match == HeadingMatch(stripped)
                 label_match == LabelMatch(stripped)
                 first == IF HeadingTaken(heading_match, bullet)
                          THEN <<_write_heading(strip(heading_match.g1))>> ELSE <<>>
             IN  first \o
                 (IF label_match.matched
                     THEN <<LabelBranch(label_match, bullet)>>
                  ELSE IF bullet THEN <<_write_bullet(stripped)>>
                  ELSE <<_write_paragraph(stripped)>>)

\* One iteration of the loop of create_pdf: the commands issued for raw_line.
LineCommands(raw_line) ==
    LET stripped0 == strip(raw_line)
    IN  IF stripped0 = <<>> THEN <<Spacing>>
        ELSE LET bullet == IsBulletLine(stripped0)
                 stripped == IF bullet THEN strip(Drop(stripped0, 2)) ELSE stripped0
                 heading_match == HeadingMatch(stripped)
                 label_match == LabelMatch(stripped)
             IN  IF HeadingTaken(heading_match, bullet)
                     THEN <<_write_heading(strip(heading_match.g1))>>
                 ELSE IF label_match.matched
                     THEN <<LabelBranch(label_match, bullet)>>
                 ELSE IF bullet THEN <<_write_bullet(stripped)>>
                 ELSE <<_write_paragraph(stripped)>>

RECURSIVE LoopCommands(_)
LoopCommands(lines) ==
    IF lines = <<>> THEN <<>>
    ELSE LineCommands(Head(lines)) \o LoopCommands(Tail(lines))

\* Every string handed to pdf.multi_cell by a command.
CellsEncodable(cmd) == \A i \in 1..Len(cmd.cells) : Latin1Encodable(cmd.cells[i])

\* create_pdf(report_text, title): the commands issued, and how the call ends.
\* The document holds every string written with multi_cell in the Latin-1
\* core font Times and is serialized with .encode("latin-1"): a written
\* string with a code point above 255 ends the call in UnicodeEncodeError.
create_pdf(text, title) ==
    LET cmds == <<TitleCmd(title)>> \o LoopCommands(splitlines(text))
    IN  [pdf |-> cmds,
         raised |-> IF \A i \in 1..Len(cmds) : CellsEncodable(cmds[i])
                    THEN "none" ELSE "UnicodeEncodeError"]

(***************************************************************************)
(* Inputs of the formatter: texts of at most MaxTokens lexical tokens.     *)
(***************************************************************************)
BoldWord == Stars \o <<"a">> \o Stars

Tokens == {Stars, BoldWord, <<"-", " ">>, <<"*", " ">>, <<" ">>, <<":">>,
           <<"a">>, <<"U">>, <<NL>>}

\* title: str = "AI_Report"
DefaultTitle == <<"A", "I", "_", "R", "e", "p", "o", "r", "t">>

Titles == {DefaultTitle}

(***************************************************************************)
(* Agent invocation wrapper                                                *)
(*                                                                         *)
(* What agent.invoke does is a record: type "fault" (it raised), "str",    *)
(* "dict" (with its 'output' and 'messages' entries) or "other" (any other *)
(* object).  An entry of a dict is absent ("missing"), None ("none"), or   *)
(* has a value.  A message's content is a str, a list of pieces, or        *)
(* neither ("absent"); a piece is a dict with or without 'text', or not a  *)
(* dict.                                                                   *)
(***************************************************************************)
Idle == [raised |-> "none", value |-> <<>>]

Returns(v) == [raised |-> "none", value |-> v]

Raises(e) == [raised |-> e, value |-> <<>>]

\* [piece.get("text", "") for piece in content if isinstance(piece, dict)]
RECURSIVE Parts(_)
Parts(content) ==
    IF content = <<>> THEN <<>>
    ELSE (IF Head(content).dict
          THEN <<IF Head(content).has_text THEN Head(content).text ELSE <<>>>>
          ELSE <<>>) \o Parts(Tail(content))

RECURSIVE Join(_)
Join(parts) == IF parts = <<>> THEN <<>> ELSE Head(parts) \o Join(Tail(parts))

\* _extract_text over list(messages), from the last message to the first.
RECURSIVE _extract_text(_)
_extract_text(messages) ==
    IF messages = <<>> THEN <<>>
    ELSE LET message == messages[Len(messages)]
             earlier == SubSeq(messages, 1, Len(messages) - 1)
         IN  IF message.kind = "str" THEN message.s
             ELSE IF message.kind = "list" /\ Parts(message.parts) # <<>>
                 THEN Join(Parts(message.parts))
             ELSE _extract_text(earlier)

\* messages = result.get("messages", []); fallback = _extract_text(messages):
\* list(None) raises TypeError.
MessagesFallback(result) ==
    IF result.messages.kind = "missing" THEN Returns(_extract_text(<<>>))
    ELSE IF result.messages.kind = "none" THEN Raises("TypeError")
    ELSE Returns(_extract_text(result.messages.list))

\* generate_report, from the agent.invoke call on.
generate_report(result) ==
    IF result.type = "fault" THEN Raises("AgentError")
    ELSE IF result.type = "str" THEN Returns(result.s)
    ELSE LET output_usable == /\ result.type = "dict"
                              /\ result.output.kind = "str"
                              /\ strip(result.output.s) # <<>>
         IN  IF output_usable THEN Returns(result.output.s)
             ELSE IF result.type = "dict"
                 THEN LET fallback == MessagesFallback(result)
                      IN  IF fallback.raised # "none" THEN fallback
                          ELSE IF fallback.value # <<>> THEN fallback
                          ELSE Returns(<<>>)
             ELSE Returns(<<>>)

(***************************************************************************)
(* Inputs of the wrapper                                                   *)
(***************************************************************************)
Entry(kind, s, list) == [kind |-> kind, s |-> s, list |-> list]

Piece(dict, has_text, text) == [dict |-> dict, has_text |-> has_text, text |-> text]

Content(kind, s, parts) == [kind |-> kind, s |-> s, parts |-> parts]

Result(type, s, output, messages) ==
    [type |-> type, s |-> s, output |-> output, messages |-> messages]

Missing == Entry("missing", <<>>, <<>>)

NoResult == Result("other", <<>>, Missing, Missing)

ShortTexts == {<<>>, <<" ">>, <<"a">>, <<"b">>}

Contents ==
    {Content("absent", <<>>, <<>>)}
    \cup {Content("str", t, <<>>) : t \in {<<>>, <<"a">>, <<"b">>}}
    \cup {Content("list", <<>>, ps) :
            ps \in {<<>>,
                    <<Piece(FALSE, FALSE, <<>>)>>,
                    <<Piece(TRUE, FALSE, <<>>)>>,
                    <<Piece(TRUE, TRUE, <<"a">>)>>,
                    <<Piece(TRUE, TRUE, <<"a">>), Piece(TRUE, TRUE, <<"b">>)>>,
                    <<Piece(FALSE, FALSE, <<>>), Piece(TRUE, TRUE, <<"b">>)>>}}

MessageLists == UNION {[1..n -> Contents] : n \in 0..MaxMsgs}

OutputEntries ==
    {Missing, Entry("nonstr", <<>>, <<>>)} \cup {Entry("str", t, <<>>) : t \in ShortTexts}

MessagesEntries ==
    {Missing, Entry("none", <<>>, <<>>)} \cup {Entry("list", <<>>, l) : l \in MessageLists}

AgentResults ==
    {Result("fault", <<>>, Missing, Missing), NoResult}
    \cup {Result("str", t, Missing, Missing) : t \in ShortTexts}
    \cup {Result("dict", <<>>, o, m) : o \in OutputEntries, m \in MessagesEntries}

NoUi == [message |-> "none", shown |-> FALSE, export |-> "none", title |-> <<>>,
         file_name |-> <<>>]

NoHist == [outcome |-> "none", calls |-> <<>>, errors |-> 0,
           pre_report |-> <<>>, pre_topic |-> <<>>,
           ever_ok |-> FALSE, ok_report |-> <<>>, ok_topic |-> <<>>]

InitPdf ==
    /\ pc = "pdf_input"
    /\ report_in = <<>>
    /\ ntok = 0
    /\ title_in \in Titles
    /\ pdf = <<>>
    /\ pdf_raised = "none"
    /\ agent_result = NoResult
    /\ gen = Idle
    /\ topic = <<>>
    /\ report_text = <<>>
    /\ last_topic = <<>>
    /\ ui = NoUi
    /\ hist = NoHist

\* The caller's report text grows by one token.
TypeToken ==
    /\ pc = "pdf_input"
    /\ ntok < MaxTokens
    /\ \E tok \in Tokens : report_in' = report_in \o tok
    /\ ntok' = ntok + 1
    /\ UNCHANGED <<pc, title_in, pdf, pdf_raised, agent_result, gen, topic,
                   report_text, last_topic, ui, hist>>

CreatePdf ==
    /\ pc = "pdf_input"
    /\ LET r == create_pdf(report_in, title_in)
       IN  /\ pdf' = r.pdf
           /\ pdf_raised' = r.raised
    /\ pc' = "pdf_done"
    /\ UNCHANGED <<report_in, title_in, agent_result, gen, topic, report_text,
                   last_topic, ui, hist, ntok>>

NextPdf == TypeToken \/ CreatePdf

SpecPdf == InitPdf /\ [][NextPdf]_vars

InitGen ==
    /\ pc = "gen_call"
    /\ agent_result \in AgentResults
    /\ gen = Idle
    /\ report_in = <<>>
    /\ title_in = DefaultTitle
    /\ pdf = <<>>
    /\ pdf_raised = "none"
    /\ topic = <<>>
    /\ report_text = <<>>
    /\ last_topic = <<>>
    /\ ui = NoUi
    /\ hist = NoHist
    /\ ntok = 0

GenerateReport ==
    /\ pc = "gen_call"
    /\ gen' = generate_report(agent_result)
    /\ pc' = "gen_done"
    /\ UNCHANGED <<report_in, title_in, pdf, pdf_raised, agent_result, topic,
                   report_text, last_topic, ui, hist, ntok>>

NextGen == GenerateReport

SpecGen == InitGen /\ [][NextGen]_vars

GenDone == pc = "gen_done"

HasText(message) ==
    \/ message.kind = "str"
    \/ message.kind = "list" /\ \E i \in 1..Len(message.parts) : message.parts[i].dict

TextOf(message) ==
    IF message.kind = "str" THEN message.s ELSE Join(Parts(message.parts))

OutputUsable(r) ==
    r.type = "dict" /\ r.output.kind = "str" /\ \E i \in 1..Len(r.output.s) : r.output.s[i] # " "

\* The messages of a result, none when the entry is missing, empty or None.
MessagesOf(r) ==
    IF r.type = "dict" /\ r.messages.kind = "list" THEN r.messages.list ELSE <<>>

TextMessages(r) == {i \in 1..Len(MessagesOf(r)) : HasText(MessagesOf(r)[i])}

\* What C8 says generate_report returns for a result the agent returned.
ExpectedReport(r) ==
    IF r.type = "str" THEN r.s
    ELSE IF OutputUsable(r) THEN r.output.s
    ELSE IF TextMessages(r) # {}
        THEN LET last == CHOOSE i \in TextMessages(r) : \A j \in TextMessages(r) : j <= i
             IN  TextOf(MessagesOf(r)[last])
    ELSE <<>>

\* C8: when the agent returns without fault, generate_report does not raise;
\* it returns the string result, else the non-blank 'output', else the content
\* of the last message with text content, else (no usable text: 'messages'
\* missing, empty, None or without text) the empty string.
C8_EmptyResultNotError ==
    (GenDone /\ agent_result.type # "fault") =>
        /\ gen.raised = "none"
        /\ gen.value = ExpectedReport(agent_result)

(***************************************************************************)
(* Streamlit script body: one run per user interaction                     *)
(***************************************************************************)
ReportPrefix == <<"R", "e", "p", "o", "r", "t", " ", "-", " ">>

\* last_topic.replace(' ', '_')
Underscored(s) == [i \in 1..Len(s) |-> IF s[i] = " " THEN "_" ELSE s[i]]

\* f"report_{...}.pdf"
FileName(lt) == <<"r", "e", "p", "o", "r", "t", "_">> \o Underscored(lt)
                    \o <<".", "p", "d", "f">>

\* Mutant: last_topic is stored before generate_report is called.
GenerateHandlerEager(tp, rt, lt, result) ==
    IF strip(tp) = <<>>
    THEN [report_text |-> rt, last_topic |-> lt, message |-> "warning",
          calls |-> <<>>, errors |-> 0]
    ELSE LET report == generate_report(result)
         IN  IF report.raised = "none"
             THEN [report_text |-> report.value, last_topic |-> strip(tp),
                   message |-> "none", calls |-> <<strip(tp)>>, errors |-> 0]
             ELSE [report_text |-> rt, last_topic |-> strip(tp), message |-> "error",
                   calls |-> <<strip(tp)>>, errors |-> 1]

\* Mutant: the topic is stored as typed, untrimmed.
GenerateHandlerUntrimmed(tp, rt, lt, result) ==
    IF strip(tp) = <<>>
    THEN [report_text |-> rt, last_topic |-> lt, message |-> "warning",
          calls |-> <<>>, errors |-> 0]
    ELSE LET report == generate_report(result)
         IN  IF report.raised = "none"
             THEN [report_text |-> report.value, last_topic |-> tp,
                   message |-> "none", calls |-> <<strip(tp)>>, errors |-> 0]
             ELSE [report_text |-> rt, last_topic |-> lt, message |-> "error",
                   calls |-> <<strip(tp)>>, errors |-> 1]

\* `if generate_button:` with the input box holding tp, the session holding
\* rt and lt, and the agent answering result: the session afterwards, the
\* message shown, the topics generate_report was called with, the st.error
\* calls made.
GenerateHandler(tp, rt, lt, result) ==
    IF strip(tp) = <<>>
    THEN [report_text |-> rt, last_topic |-> lt, message |-> "warning",
          calls |-> <<>>, errors |-> 0]
    ELSE LET report == generate_report(result)
         IN  IF report.raised = "none"
             THEN [report_text |-> report.value, last_topic |-> strip(tp),
                   message |-> "none", calls |-> <<strip(tp)>>, errors |-> 0]
             ELSE [report_text |-> rt, last_topic |-> lt, message |-> "error",
                   calls |-> <<strip(tp)>>, errors |-> 1]

\* `if st.session_state.report_text:` the report card and the PDF download.
Display(rt, lt, message) ==
    IF rt # <<>>
    THEN [message |-> message, shown |-> TRUE,
          export |-> IF create_pdf(rt, ReportPrefix \o lt).raised = "none"
                     THEN "bytes" ELSE "raised",
          title |-> ReportPrefix \o lt, file_name |-> FileName(lt)]
    ELSE [message |-> message, shown |-> FALSE, export |-> "none", title |-> <<>>,
          file_name |-> <<>>]

Topics == {<<>>, <<" ">>, <<"a">>, <<" ", "a", " ">>, <<"b">>, <<"a", " ", "b">>}

\* What the agent may answer to a click.
UiAgentResults ==
    {Result("fault", <<>>, Missing, Missing),
     NoResult,
     Result("str", <<>>, Missing, Missing),
     Result("str", <<"a">>, Missing, Missing),
     Result("str", BoldWord, Missing, Missing),
     Result("dict", <<>>, Entry("str", <<"b">>, <<>>), Missing),
     Result("dict", <<>>, Missing, Entry("none", <<>>, <<>>)),
     Result("dict", <<>>, Missing,
            Entry("list", <<>>, <<Content("str", <<"U">>, <<>>)>>))}

InitUi ==
    /\ pc = "ui"
    /\ topic = <<>>
    /\ report_text = <<>>
    /\ last_topic = <<>>
    /\ ui = NoUi
    /\ hist = NoHist
    /\ agent_result = NoResult
    /\ gen = Idle
    /\ report_in = <<>>
    /\ title_in = DefaultTitle
    /\ pdf = <<>>
    /\ pdf_raised = "none"
    /\ ntok = 0

\* The user edits the input box: a script run with generate_button False.
RerunNoClick ==
    /\ pc = "ui"
    /\ \E t \in Topics : topic' = t
    /\ ui' = Display(report_text, last_topic, "none")
    /\ hist' = [hist EXCEPT !.outcome = "none", !.calls = <<>>, !.errors = 0,
                            !.pre_report = report_text, !.pre_topic = last_topic]
    /\ UNCHANGED <<pc, report_text, last_topic, agent_result, gen, report_in,
                   title_in, pdf, pdf_raised, ntok>>

\* The user clicks Generate: a script run with generate_button True.
GenerateClick ==
    /\ pc = "ui"
    /\ \E result \in UiAgentResults :
          LET h == GenerateHandler(topic, report_text, last_topic, result)
              report == generate_report(result)
              called == strip(topic) # <<>>
              ok == called /\ report.raised = "none"
          IN  /\ report_text' = h.report_text
              /\ last_topic' = h.last_topic
              /\ ui' = Display(h.report_text, h.last_topic, h.message)
              /\ hist' = [outcome |-> IF ~called THEN "empty_topic"
                                      ELSE IF ok THEN "ok" ELSE "failed",
                          calls |-> h.calls,
                          errors |-> h.errors,
                          pre_report |-> report_text,
                          pre_topic |-> last_topic,
                          ever_ok |-> hist.ever_ok \/ ok,
                          ok_report |-> IF ok THEN report.value ELSE hist.ok_report,
                          ok_topic |-> IF ok THEN strip(topic) ELSE hist.ok_topic]
    /\ UNCHANGED <<pc, topic, agent_result, gen, report_in, title_in, pdf,
                   pdf_raised, ntok>>

NextUi == RerunNoClick \/ GenerateClick

SpecUi == InitUi /\ [][NextUi]_vars

\* C7: when the generation of a click fails, generate_report was called
\* exactly once, exactly one error message is shown, and report_text and
\* last_topic are what they were before the click, so that a report generated
\* earlier is still displayed under its own topic.
C7_FailureKeepsSession ==
    hist.outcome = "failed" =>
        /\ Len(hist.calls) = 1
        /\ hist.errors = 1
        /\ ui.message = "error"
        /\ report_text = hist.pre_report
        /\ last_topic = hist.pre_topic
        /\ ui.shown <=> hist.pre_report # <<>>
        /\ ui.shown => ui.title = ReportPrefix \o hist.pre_topic

C7_Witness ==
    /\ hist.outcome = "failed"
    /\ hist.pre_report = <<"a">>
    /\ hist.pre_topic = <<"b">>
    /\ strip(topic) = <<"a">>
    /\ ui.shown
    /\ ui.export = "bytes"

PdfDone == pc = "pdf_done"

InputLines == splitlines(report_in)

IsBlank(line) == \A i \in 1..Len(line) : line[i] \in Whitespace

IsTextCmd(cmd) == cmd.kind \in {"Heading", "Paragraph", "Bullet", "LabeledBlock"}

\* The commands of the loop (everything after the title block).
LoopCmds == Tail(pdf)

TextCmds == SelectSeq(LoopCmds, IsTextCmd)

NonBlankLines == SelectSeq(InputLines, LAMBDA l : ~IsBlank(l))

IsLetter(c) == c \in {"a", "U"}

Letters(s) == SelectSeq(s, IsLetter)

\* Everything a command hands to the renderer, in order.
RECURSIVE Concat(_)
Concat(ss) == IF ss = <<>> THEN <<>> ELSE Head(ss) \o Concat(Tail(ss))

HasMarker(s) == \E i \in 1..(Len(s) - 1) : s[i] = "*" /\ s[i + 1] = "*"

\* Emphasis markers properly paired: the line is plain text without '*'
\* interleaved with spans **X**, X non-empty and without '*'.
RECURSIVE PairedFrom(_, _)
PairedFrom(s, i) ==
    IF i > Len(s) THEN TRUE
    ELSE IF s[i] # "*" THEN PairedFrom(s, i + 1)
    ELSE LET J == {j \in (i + 2)..Len(s) : s[j] = "*"}
         IN  /\ i + 1 <= Len(s) /\ s[i + 1] = "*"
             /\ J # {}
             /\ LET j == CHOOSE x \in J : \A y \in J : x <= y
                IN  /\ j >= i + 3
                    /\ j + 1 <= Len(s) /\ s[j + 1] = "*"
                    /\ PairedFrom(s, j + 2)

ProperlyPaired(line) == PairedFrom(line, 1)

\* The whole line is one emphasis span: **X** with no marker inside X.
SingleWrapped(s) ==
    /\ Len(s) >= 5
    /\ StartsWith(s, Stars)
    /\ EndsWith(s, Stars)
    /\ ~HasMarker(SubSeq(s, 3, Len(s) - 2))

\* C1: every non-blank input line yields exactly one text command, in line
\* order: as many text commands as non-blank lines, and the k-th text command
\* carries exactly the letters of the k-th non-blank line.
C1_OneCommandPerLine ==
    PdfDone =>
        /\ Len(TextCmds) = Len(NonBlankLines)
        /\ \A k \in 1..Len(TextCmds) :
               k <= Len(NonBlankLines) =>
                   Letters(Concat(TextCmds[k].cells)) = Letters(NonBlankLines[k])

C1_Witness ==
    /\ PdfDone
    /\ Len(NonBlankLines) = 2
    /\ Len(InputLines) = 3
    /\ Letters(NonBlankLines[1]) = <<"U">>
    /\ Letters(NonBlankLines[2]) = <<"a">>
    /\ TextCmds[1].kind = "Paragraph"
    /\ TextCmds[2].kind = "Heading"

\* C9: every blank or whitespace-only line yields exactly one spacing command
\* without text at its own position, and nothing else does; a report of blank
\* lines only is the title followed by spacing commands.
C9_BlankLinesSpacing ==
    PdfDone =>
        /\ Len(LoopCmds) = Len(InputLines)
        /\ \A i \in 1..Len(InputLines) :
               i <= Len(LoopCmds) =>
                   /\ IsBlank(InputLines[i]) <=> LoopCmds[i].kind = "Spacing"
                   /\ LoopCmds[i].kind = "Spacing" =>
                          LoopCmds[i].cells = <<>> /\ LoopCmds[i].text = <<>>
        /\ (\A i \in 1..Len(InputLines) : IsBlank(InputLines[i])) =>
               /\ pdf[1].kind = "Title"
               /\ \A i \in 2..Len(pdf) : pdf[i].kind = "Spacing"
               /\ pdf_raised = "none"

C9_Witness ==
    /\ PdfDone
    /\ InputLines = <<<<>>, <<" ">>, <<" ", " ">>>>
    /\ Len(pdf) = 4
    /\ pdf[3].kind = "Spacing"

\* C5: a line whose trimmed text starts with a bullet marker ("- " or "* ")
\* loses exactly one marker and is written with the bullet flag set, as a
\* Bullet or a bullet-flagged LabeledBlock and never as a Heading; a line
\* without a marker is never a Bullet nor bullet-flagged.  "- a" is
\* Bullet("a") and "- - a" is Bullet("- a").
C5_BulletLines ==
    PdfDone =>
        /\ \A i \in 1..Len(InputLines) :
               (i <= Len(LoopCmds) /\ ~IsBlank(InputLines[i])) =>
                   LET line == strip(InputLines[i])
                       cmd == LoopCmds[i]
                       marked == \/ StartsWith(line, <<"-", " ">>)
                                 \/ StartsWith(line, <<"*", " ">>)
                   IN  IF marked
                       THEN /\ cmd.bullet
                            /\ cmd.kind \in {"Bullet", "LabeledBlock"}
                            /\ StartsWith(cmd.cells[1], <<"-", " ">>)
                            /\ cmd.kind = "Bullet" => cmd.text = strip(Drop(line, 2))
                            /\ Letters(Concat(cmd.cells)) = Letters(Drop(line, 2))
                       ELSE ~cmd.bullet /\ cmd.kind # "Bullet"
        /\ report_in = <<"-", " ", "a">> =>
               LoopCmds = <<Cmd("Bullet", <<"a">>, None, TRUE, <<<<"-", " ", "a">>>>)>>
        /\ report_in = <<"-", " ", "-", " ", "a">> =>
               LoopCmds = <<Cmd("Bullet", <<"-", " ", "a">>, None, TRUE,
                                <<<<"-", " ", "-", " ", "a">>>>)>>

C5_Witness ==
    /\ PdfDone
    /\ report_in = <<"-", " ">> \o BoldWord
    /\ LoopCmds = <<Cmd("LabeledBlock", <<"a">>, None, TRUE, <<<<"-", " ", "a">>>>)>>

\* C2: a non-bullet line that starts with an emphasis span followed by body
\* text is a LabeledBlock whose label is the unwrapped span with a single
\* trailing ':' and whose body is the rest without its leading ':' and
\* spaces; without a body no ':' is appended.  Stated for lines whose only
\* emphasis span is the leading one.
C2_LabelSingleColon ==
    PdfDone =>
        \A i \in 1..Len(InputLines) :
            LET line == strip(InputLines[i])
                m == LabelMatch(line)
                span == strip(m.g1)
                rest == strip(lstrip(m.g2, {" ", ":"}))
            IN  (i <= Len(LoopCmds) /\ m.matched /\ ~IsBulletLine(line)
                    /\ ProperlyPaired(line) /\ ~HasMarker(m.g2) /\ rest # <<>>
                    /\ Letters(span) # <<>>) =>
                    /\ LoopCmds[i].kind = "LabeledBlock"
                    /\ ~LoopCmds[i].bullet
                    /\ LoopCmds[i].body = rest
                    /\ LoopCmds[i].text =
                           IF rest # <<>> THEN rstrip(span, {":"}) \o <<":">> ELSE span

\* C3: for a line with properly paired emphasis markers, no text handed to
\* the renderer contains a literal "**".
C3_NoMarkerRendered ==
    PdfDone =>
        \A i \in 1..Len(InputLines) :
            (i <= Len(LoopCmds) /\ ProperlyPaired(strip(InputLines[i]))) =>
                \A k \in 1..Len(LoopCmds[i].cells) : ~HasMarker(LoopCmds[i].cells[k])

\* C4: a line without bullet marker is a Heading, carrying the unwrapped
\* text, exactly when the whole trimmed line is one emphasis span.  Stated
\* for lines whose emphasis markers are properly paired.
C4_HeadingIffSingleWrapped ==
    PdfDone =>
        \A i \in 1..Len(InputLines) :
            LET line == strip(InputLines[i])
            IN  (i <= Len(LoopCmds) /\ ~IsBlank(line) /\ ~IsBulletLine(line)
                    /\ ProperlyPaired(line)) =>
                    /\ LoopCmds[i].kind = "Heading" <=> SingleWrapped(line)
                    /\ SingleWrapped(line) =>
                           LoopCmds[i].text = strip(SubSeq(line, 3, Len(line) - 2))

\* C6: create_pdf never ends in an error.
C6_CreatePdfTotal == PdfDone => pdf_raised = "none"

====
